---- MODULE Spec2Model ----
(***************************************************************************)
(* GridZen (src/App.js): the GridZenGame component as a state machine.     *)
(* The state is the component's useState/useRef cells, the AsyncStorage    *)
(* items it reads and writes, and the Alert dialog on screen.  Every       *)
(* action is one event handler (or timer/effect callback) run to           *)
(* completion, followed by the timer effect of the render it causes.       *)
(***************************************************************************)
EXTENDS Integers, Sequences, FiniteSets, TLC

VARIABLES
    gameState,      \* useState('splash')
    gridSize,       \* useState(3)
    grid,           \* useState([]): rows of tiles [number, color]
    targetGrid,     \* useState([])
    selectedTile,   \* useState(null): Null or <<row, col>> (0-based)
    moves,          \* useState(0)
    timeLeft,       \* useState(30)
    playerName,     \* useState(''): a sequence of characters
    highScores,     \* useState({}): score key -> list of scores
    timerRef,       \* useRef(null): the timeLeft captured by the pending
                    \* one-second timeout, or NoTimer
    storedScores,   \* AsyncStorage item 'gridzen_highscores'
    storedName,     \* AsyncStorage item 'gridzen_playername'
    isDarkMode,     \* useState(false)
    soundEnabled,   \* useState(false)
    storedDarkMode, \* AsyncStorage item 'darkMode'
    storedSound,    \* AsyncStorage item 'soundOn'
    platform,       \* Platform.OS: "native" or "web"
    dialog,         \* the Alert dialog on screen (native only)
    prompt,         \* the Alert.alert call made by the last handler
    sound,          \* the playSound call made by the last handler
    loaded,         \* loadInitialData has run
    lastPress,      \* history: the branch the last handleTilePress took
    swaps,          \* history: successful swaps since startGame
    timeouts,       \* history: handleGameOver calls since startGame
    sessions,       \* history: successful startGame calls
    recorded        \* history: the moves of every win recorded since the
                    \* last reset, per key

vars == <<gameState, gridSize, grid, targetGrid, selectedTile, moves, timeLeft,
          playerName, highScores, timerRef, storedScores, storedName, platform,
          dialog, prompt, sound, loaded, lastPress, swaps, timeouts, sessions,
          recorded, isDarkMode, soundEnabled, storedDarkMode, storedSound>>

\* The settings and their stored items.
settings == <<isDarkMode, soundEnabled, storedDarkMode, storedSound>>

-----------------------------------------------------------------------------
(* Bounds of the model *)

MaxMoves == 1        \* swaps explored per session
MaxSessions == 2     \* successful startGame calls explored
MaxRecords == 6      \* wins recorded in a run of the score ledger alone

-----------------------------------------------------------------------------
(* Values *)

Null == <<>>
NoTimer == -1
GridSizes == {3, 4, 5, 6}
Names == {<<>>, <<" ">>, <<"A">>}
Today == "1/1/2025"
Absent == [kind |-> "absent"]
Corrupt == [kind |-> "corrupt"]

Min(a, b) == IF a < b THEN a ELSE b

Abs(x) == IF x < 0 THEN -x ELSE x

\* Mutant of Trim: the name is tested without trimming.
TrimNothing(s) == s

RECURSIVE TrimStart(_)
TrimStart(s) ==
    IF s # <<>> /\ Head(s) = " " THEN TrimStart(Tail(s)) ELSE s

RECURSIVE TrimEnd(_)
TrimEnd(s) ==
    IF s # <<>> /\ s[Len(s)] = " " THEN TrimEnd(SubSeq(s, 1, Len(s) - 1)) ELSE s

Trim(s) == TrimEnd(TrimStart(s))

TimeLimit3 == 30
TimeLimit4 == 60
TimeLimit5 == 90
TimeLimit6 == 120

\* Mutant of getTimeLimit: every size gets the limit of size 3.
getTimeLimitFlat(size) == TimeLimit3

getTimeLimit(size) ==
    CASE size = 3 -> TimeLimit3
      [] size = 4 -> TimeLimit4
      [] size = 5 -> TimeLimit5
      [] size = 6 -> TimeLimit6

ScoreKey(size) ==
    CASE size = 3 -> "3x3"
      [] size = 4 -> "4x4"
      [] size = 5 -> "5x5"
      [] size = 6 -> "6x6"

-----------------------------------------------------------------------------
(* Grid Factory *)

Identity(count) == [k \in 1..count |-> k]

Reversed(count) == [k \in 1..count |-> count + 1 - k]

Transpose(s, a, b) == [s EXCEPT ![a] = s[b], ![b] = s[a]]

\* generateDistinctColors: color i is the i-th hue step, then the list is put
\* in a random order; colors are named by their hue step.
generateDistinctColors(count) == {Reversed(count)}

\* numbers.sort(() => Math.random() - 0.5): some permutation of 1..count;
\* here the sorted order, the order with its first two numbers exchanged, and
\* the reverse order.
Shuffles(count) ==
    {Identity(count), Transpose(Identity(count), 1, 2), Reversed(count)}

TargetOf(size, colors) ==
    [i \in 1..size |-> [j \in 1..size |->
        [number |-> (i - 1) * size + (j - 1) + 1,
         color  |-> colors[(i - 1) * size + (j - 1) + 1]]]]

\* Mutant of ShuffledGridOf: a tile gets the color of its position.
ShuffledGridOfPosition(size, colors, shuffled) ==
    [i \in 1..size |-> [j \in 1..size |->
        [number |-> shuffled[(i - 1) * size + (j - 1) + 1],
         color  |-> colors[(i - 1) * size + (j - 1) + 1]]]]

ShuffledGridOf(size, colors, shuffled) ==
    [i \in 1..size |-> [j \in 1..size |->
        [number |-> shuffled[(i - 1) * size + (j - 1) + 1],
         color  |-> colors[shuffled[(i - 1) * size + (j - 1) + 1]]]]]

-----------------------------------------------------------------------------
(* Move Engine *)

\* Mutant of isAdjacent: diagonal cells count as adjacent.
isAdjacentOrDiagonal(row, col, selRow, selCol) ==
    /\ Abs(row - selRow) <= 1
    /\ Abs(col - selCol) <= 1

\* Mutant of isAdjacent: no cell counts as adjacent.
isAdjacentNever(row, col, selRow, selCol) == FALSE

isAdjacent(row, col, selRow, selCol) ==
    \/ (Abs(row - selRow) = 1 /\ col = selCol)
    \/ (Abs(col - selCol) = 1 /\ row = selRow)

\* Mutant of SwapTiles: the tapped tile is not saved before it is overwritten.
SwapTilesNoTemp(g, row, col, selRow, selCol) ==
    LET g1 == [g EXCEPT ![row + 1][col + 1] = g[selRow + 1][selCol + 1]]
    IN  [g1 EXCEPT ![selRow + 1][selCol + 1] = g1[row + 1][col + 1]]

SwapTiles(g, row, col, selRow, selCol) ==
    LET temp == g[row + 1][col + 1]
        g1   == [g EXCEPT ![row + 1][col + 1] = g[selRow + 1][selCol + 1]]
    IN  [g1 EXCEPT ![selRow + 1][selCol + 1] = temp]

\* Mutant of NextMoves: a swap counts twice.
NextMovesTwice(m) == m + 2

\* setMoves(moves + 1), line 323.
NextMoves(m) == m + 1

RECURSIVE checkWinFrom(_, _, _)
checkWinFrom(currentGrid, size, k) ==
    IF k >= size * size THEN TRUE
    ELSE IF currentGrid[(k \div size) + 1][(k % size) + 1].number # k + 1 THEN FALSE
    ELSE checkWinFrom(currentGrid, size, k + 1)

\* Mutant of checkWin: the scan returns after its first cell.
checkWinFirstCell(currentGrid, size) == currentGrid[1][1].number = 1

checkWin(currentGrid, size) == checkWinFrom(currentGrid, size, 0)

-----------------------------------------------------------------------------
(* Score Ledger *)

\* Mutant of InsertByMoves: an insertion before the elements whose moves are
\* equal.
RECURSIVE InsertByMovesFirst(_, _)
InsertByMovesFirst(sorted, e) ==
    IF sorted = <<>> THEN <<e>>
    ELSE IF sorted[Len(sorted)].moves < e.moves THEN Append(sorted, e)
    ELSE Append(InsertByMovesFirst(SubSeq(sorted, 1, Len(sorted) - 1), e),
                sorted[Len(sorted)])

\* Array.prototype.sort((a, b) => a.moves - b.moves) is stable: an insertion
\* after the last element whose moves are not greater.
RECURSIVE InsertByMoves(_, _)
InsertByMoves(sorted, e) ==
    IF sorted = <<>> THEN <<e>>
    ELSE IF sorted[Len(sorted)].moves <= e.moves THEN Append(sorted, e)
    ELSE Append(InsertByMoves(SubSeq(sorted, 1, Len(sorted) - 1), e), sorted[Len(sorted)])

\* Mutant of SortByMoves: the list is not sorted.
SortNothing(list) == list

RECURSIVE SortByMoves(_)
SortByMoves(list) ==
    IF list = <<>> THEN <<>>
    ELSE InsertByMoves(SortByMoves(SubSeq(list, 1, Len(list) - 1)), list[Len(list)])

TopScores == 5

Slice(list, n) == SubSeq(list, 1, Min(Len(list), n))

ScoresOf(scores, key) == IF key \in DOMAIN scores THEN scores[key] ELSE <<>>

\* Mutant of RecordWin: the updated ledger starts empty instead of as a copy.
RecordWinAlone(scores, key, newScore) ==
    LET pushed == Append(ScoresOf(scores, key), newScore)
        kept   == Slice(SortByMoves(pushed), 5)
    IN  [k \in {key} |-> kept]

\* handleWin, lines 359-374: the updated ledger.
RecordWin(scores, key, newScore) ==
    LET pushed == Append(ScoresOf(scores, key), newScore)
        kept   == Slice(SortByMoves(pushed), TopScores)
    IN  [k \in (DOMAIN scores) \cup {key} |-> IF k = key THEN kept ELSE scores[k]]

EmptyScores == [k \in {} |-> <<>>]

\* History: the moves of a recorded win, added to those of its key.
Remember(history, key, m) ==
    [k \in (DOMAIN history) \cup {key} |->
        IF k = key THEN Append(ScoresOf(history, key), m) ELSE history[k]]

Json(v) == [kind |-> "json", value |-> v]

\* Mutant of JsonParse: the stored ledger is read as no scores.
JsonParseNothing(item) == [k \in {} |-> <<>>]

\* JSON.parse of a stored blob it can read, line 157.
JsonParse(item) == item.value

\* Mutant of removeItem: the item is left in the store.
removeItemNothing(item) == item

\* AsyncStorage.removeItem, line 418.
removeItem(item) == Absent

-----------------------------------------------------------------------------
(* Session Clock *)

\* Mutant of TimerEffect: no timeout is scheduled for the last second.
TimerEffectStopsAtOne(state, time) ==
    IF state = "playing" /\ time > 1 THEN time ELSE NoTimer

\* Mutant of TimerEffect: the timeout is scheduled in any phase.
TimerEffectAnyPhase(state, time) ==
    IF time > 0 THEN time ELSE NoTimer

\* Mutant of TimerEffectFires: the effect misses the time 0.
TimerEffectFiresNever(state, time) == time < 0 /\ state = "playing"

\* The timer effect, lines 205-219, run after a render whose gameState or
\* timeLeft changed: its cleanup clears the pending timeout, then a timeout
\* capturing the time is scheduled while playing with time left.
TimerEffect(state, time) ==
    IF state = "playing" /\ time > 0 THEN time ELSE NoTimer

\* The effect's other branch, line 210: it calls handleGameOver.
TimerEffectFires(state, time) == time = 0 /\ state = "playing"

\* Alert.alert shows a modal dialog on native and does nothing on web.
Shown(title) == IF platform = "native" THEN title ELSE "none"

\* A control of the screen can be pressed unless a modal dialog covers it.
CanPress == dialog = "none"

\* Only the signals of the handler change.
Quiet == prompt' = "none" /\ sound' = "none"

-----------------------------------------------------------------------------
(* Initial state: the component as constructed, on a device whose store holds
   no scores yet or an unreadable scores blob *)

Init ==
    /\ gameState = "splash"
    /\ gridSize = 3
    /\ grid = <<>>
    /\ targetGrid = <<>>
    /\ selectedTile = Null
    /\ moves = 0
    /\ timeLeft = 30
    /\ playerName = <<>>
    /\ highScores = EmptyScores
    /\ timerRef = NoTimer
    /\ storedScores \in {Absent, Corrupt}
    /\ storedName = Absent
    /\ isDarkMode = FALSE
    /\ soundEnabled = FALSE
    /\ storedDarkMode = Absent
    /\ storedSound = Absent
    /\ platform \in {"native", "web"}
    /\ dialog = "none"
    /\ prompt = "none"
    /\ sound = "none"
    /\ loaded = FALSE
    /\ lastPress = "none"
    /\ swaps = 0
    /\ timeouts = 0
    /\ sessions = 0
    /\ recorded = EmptyScores

-----------------------------------------------------------------------------
(* Startup *)

\* The AsyncStorage.getItem of loadInitialData that rejects, if any.
ReadFailures == {"none", "scores", "name", "darkMode", "soundOn"}

\* loadInitialData, lines 153-188: a getItem that rejects, or a stored blob
\* JSON.parse cannot read, throws, and the catch skips the loads that follow.
loadInitialData(failed) ==
    /\ gameState = "splash"
    /\ ~loaded
    /\ loaded' = TRUE
    /\ IF failed = "scores" \/ storedScores.kind = "corrupt"
       THEN UNCHANGED <<highScores, playerName>>
       ELSE /\ highScores' = IF storedScores.kind = "json"
                             THEN JsonParse(storedScores) ELSE highScores
            /\ playerName' = IF /\ failed # "name"
                                /\ storedName.kind = "json"
                                /\ storedName.value # <<>>
                             THEN storedName.value ELSE playerName
    /\ isDarkMode' = IF /\ failed \in {"none", "soundOn"}
                        /\ storedScores.kind # "corrupt"
                        /\ storedDarkMode.kind = "json"
                     THEN storedDarkMode.value ELSE isDarkMode
    /\ soundEnabled' = IF /\ failed = "none"
                          /\ storedScores.kind # "corrupt"
                          /\ storedSound.kind = "json"
                       THEN storedSound.value ELSE soundEnabled
    /\ UNCHANGED <<storedDarkMode, storedSound>>
    /\ UNCHANGED <<gameState, gridSize, grid, targetGrid, selectedTile, moves,
                   timeLeft, timerRef, storedScores, storedName, platform,
                   dialog, prompt, sound, lastPress, swaps, timeouts, sessions,
                   recorded>>

\* The splash timeout (and fade) of loadInitialData: setGameState('menu').
SplashDone ==
    /\ gameState = "splash"
    /\ UNCHANGED settings
    /\ loaded
    /\ gameState' = "menu"
    /\ timerRef' = TimerEffect("menu", timeLeft)
    /\ Quiet
    /\ UNCHANGED <<gridSize, grid, targetGrid, selectedTile, moves, timeLeft,
                   playerName, highScores, storedScores, storedName, platform,
                   dialog, loaded, lastPress, swaps, timeouts, sessions,
                   recorded>>

\* The app is closed and launched again: the component is constructed anew
\* (lines 39-59) over the stored items.
Relaunch ==
    /\ gameState # "splash"
    /\ gameState' = "splash"
    /\ gridSize' = 3
    /\ grid' = <<>>
    /\ targetGrid' = <<>>
    /\ selectedTile' = Null
    /\ moves' = 0
    /\ timeLeft' = 30
    /\ playerName' = <<>>
    /\ highScores' = EmptyScores
    /\ timerRef' = NoTimer
    /\ dialog' = "none"
    /\ Quiet
    /\ loaded' = FALSE
    /\ lastPress' = "none"
    /\ swaps' = 0
    /\ timeouts' = 0
    /\ isDarkMode' = FALSE
    /\ soundEnabled' = FALSE
    /\ UNCHANGED <<storedScores, storedName, platform, sessions, recorded,
                   storedDarkMode, storedSound>>

-----------------------------------------------------------------------------
(* Menu *)

\* The size buttons, line 594 (explored while a session can still start).
SetGridSize(size) ==
    /\ gameState = "menu"
    /\ UNCHANGED settings
    /\ CanPress
    /\ sessions < MaxSessions
    /\ gridSize' = size
    /\ Quiet
    /\ lastPress' = "none"
    /\ UNCHANGED <<gameState, grid, targetGrid, selectedTile, moves, timeLeft,
                   playerName, highScores, timerRef, storedScores, storedName,
                   platform, dialog, loaded, swaps, timeouts, sessions, recorded>>

\* The name input, line 579 (explored while a session can still start).
SetPlayerName(name) ==
    /\ gameState = "menu"
    /\ UNCHANGED settings
    /\ CanPress
    /\ sessions < MaxSessions
    /\ playerName' = name
    /\ Quiet
    /\ lastPress' = "none"
    /\ UNCHANGED <<gameState, gridSize, grid, targetGrid, selectedTile, moves,
                   timeLeft, highScores, timerRef, storedScores, storedName,
                   platform, dialog, loaded, swaps, timeouts, sessions, recorded>>

\* initializeGrid, lines 246-278.
initializeGrid ==
    \E colors \in generateDistinctColors(gridSize * gridSize),
       shuffled \in Shuffles(gridSize * gridSize) :
        /\ targetGrid' = TargetOf(gridSize, colors)
        /\ grid' = ShuffledGridOf(gridSize, colors, shuffled)

\* startGame, lines 281-292, and the timer effect of the render it causes.
startGame ==
    /\ gameState = "menu"
    /\ UNCHANGED settings
    /\ CanPress
    /\ lastPress' = "none"
    /\ IF Trim(playerName) = <<>>
       THEN /\ prompt' = "Name Required"
            /\ dialog' = Shown("Name Required")
            /\ sound' = "none"
            /\ UNCHANGED <<gameState, gridSize, grid, targetGrid, selectedTile,
                           moves, timeLeft, playerName, highScores, timerRef,
                           storedScores, storedName, platform, loaded, swaps,
                           timeouts, sessions, recorded>>
       ELSE /\ sessions < MaxSessions
            /\ storedName' = Json(playerName)
            /\ gameState' = "playing"
            /\ moves' = 0
            /\ timeLeft' = getTimeLimit(gridSize)
            /\ selectedTile' = Null
            /\ initializeGrid
            /\ timerRef' = TimerEffect(gameState', timeLeft')
            /\ Quiet
            /\ swaps' = 0
            /\ timeouts' = 0
            /\ sessions' = sessions + 1
            /\ UNCHANGED <<gridSize, playerName, highScores, storedScores,
                           platform, dialog, loaded, recorded>>

\* saveSettings, lines 221-225, called by a switch's onValueChange right
\* after its setter: isDarkMode and soundEnabled are those of the render the
\* handler was made in, the values before the change.
saveSettings ==
    /\ storedDarkMode' = Json(isDarkMode)
    /\ storedSound' = Json(soundEnabled)

\* The Dark Mode switch, lines 530-538.
ToggleDarkMode ==
    /\ gameState = "menu"
    /\ CanPress
    /\ isDarkMode' = ~isDarkMode
    /\ saveSettings
    /\ Quiet
    /\ lastPress' = "none"
    /\ UNCHANGED <<gameState, gridSize, grid, targetGrid, selectedTile, moves,
                   timeLeft, playerName, highScores, timerRef, storedScores,
                   storedName, platform, dialog, loaded, swaps, timeouts,
                   sessions, recorded, soundEnabled>>

\* The Sounds switch, lines 552-560.
ToggleSound ==
    /\ gameState = "menu"
    /\ CanPress
    /\ soundEnabled' = ~soundEnabled
    /\ saveSettings
    /\ Quiet
    /\ lastPress' = "none"
    /\ UNCHANGED <<gameState, gridSize, grid, targetGrid, selectedTile, moves,
                   timeLeft, playerName, highScores, timerRef, storedScores,
                   storedName, platform, dialog, loaded, swaps, timeouts,
                   sessions, recorded, isDarkMode>>

\* resetHighScores, lines 407-424, pressed in the high scores modal of the
\* menu: it only asks for confirmation (explored while a session can still
\* start).
resetHighScores ==
    /\ gameState = "menu"
    /\ UNCHANGED settings
    /\ CanPress
    /\ sessions < MaxSessions
    /\ prompt' = "Reset High Scores"
    /\ dialog' = Shown("Reset High Scores")
    /\ sound' = "none"
    /\ lastPress' = "none"
    /\ UNCHANGED <<gameState, gridSize, grid, targetGrid, selectedTile, moves,
                   timeLeft, playerName, highScores, timerRef, storedScores,
                   storedName, platform, loaded, swaps, timeouts, sessions,
                   recorded>>

\* The Cancel button of the confirmation, line 412.
DialogCancel ==
    /\ dialog = "Reset High Scores"
    /\ UNCHANGED settings
    /\ dialog' = "none"
    /\ Quiet
    /\ lastPress' = "none"
    /\ UNCHANGED <<gameState, gridSize, grid, targetGrid, selectedTile, moves,
                   timeLeft, playerName, highScores, timerRef, storedScores,
                   storedName, platform, loaded, swaps, timeouts, sessions,
                   recorded>>

\* The Reset button of the confirmation, lines 413-421.
DialogReset ==
    /\ dialog = "Reset High Scores"
    /\ UNCHANGED settings
    /\ highScores' = EmptyScores
    /\ storedScores' = removeItem(storedScores)
    /\ prompt' = "Success"
    /\ dialog' = Shown("Success")
    /\ sound' = "none"
    /\ lastPress' = "none"
    /\ recorded' = EmptyScores
    /\ UNCHANGED <<gameState, gridSize, grid, targetGrid, selectedTile, moves,
                   timeLeft, playerName, timerRef, storedName, platform, loaded,
                   swaps, timeouts, sessions>>

-----------------------------------------------------------------------------
(* Game screen *)

\* renderGame is on screen in every state but splash and menu (line 682).
GameScreen == gameState \notin {"splash", "menu"}

\* The times at which the player taps a tile: in the last second of the
\* clock, or when it has run out.
TapTime == timeLeft <= 1

\* The times at which the player gives up: at once, or as for a tap.
GiveUpTime == TapTime \/ timeLeft = getTimeLimit(gridSize)

\* The tiles tapped: from (0,0), the same cell, a neighbour in the row, a cell
\* two apart and a diagonal cell; (0,1) and (1,1) are neighbours in a column.
TapCells == {<<0, 0>>, <<0, 1>>, <<0, 2>>, <<1, 1>>}

newScore == [name |-> playerName, moves |-> moves, timeRemaining |-> timeLeft,
             date |-> Today]

\* handleWin, lines 352-387, called by handleTilePress before the render:
\* moves, timeLeft and highScores are those of the handler's closure.
handleWin ==
    /\ gameState' = "won"
    /\ highScores' = RecordWin(highScores, ScoreKey(gridSize), newScore)
    /\ storedScores' = Json(highScores')
    /\ recorded' = Remember(recorded, ScoreKey(gridSize), moves)
    /\ sound' = "victory"
    /\ prompt' = "Congratulations!"
    /\ dialog' = Shown("Congratulations!")

\* Mutant of PressIgnored: the handler has no phase guard.
PressIgnoredNever(state) == FALSE

\* if (gameState !== 'playing') return; line 296.
PressIgnored(state) == state # "playing"

\* handleTilePress, lines 295-335, and the timer effect of the render.
handleTilePress(row, col) ==
    /\ GameScreen
    /\ UNCHANGED settings
    /\ CanPress
    /\ TapTime
    /\ IF PressIgnored(gameState)
       THEN /\ lastPress' = "ignored"
            /\ Quiet
            /\ UNCHANGED <<gameState, gridSize, grid, targetGrid, selectedTile,
                           moves, timeLeft, playerName, highScores, timerRef,
                           storedScores, storedName, platform, dialog, loaded,
                           swaps, timeouts, sessions, recorded>>
       ELSE IF selectedTile = Null
       THEN /\ selectedTile' = <<row, col>>
            /\ lastPress' = "select"
            /\ Quiet
            /\ UNCHANGED <<gameState, gridSize, grid, targetGrid, moves, timeLeft,
                           playerName, highScores, timerRef, storedScores,
                           storedName, platform, dialog, loaded, swaps, timeouts,
                           sessions, recorded>>
       ELSE IF row = selectedTile[1] /\ col = selectedTile[2]
       THEN /\ selectedTile' = Null
            /\ lastPress' = "deselect"
            /\ Quiet
            /\ UNCHANGED <<gameState, gridSize, grid, targetGrid, moves, timeLeft,
                           playerName, highScores, timerRef, storedScores,
                           storedName, platform, dialog, loaded, swaps, timeouts,
                           sessions, recorded>>
       ELSE IF isAdjacent(row, col, selectedTile[1], selectedTile[2])
       THEN /\ moves < MaxMoves
            /\ grid' = SwapTiles(grid, row, col, selectedTile[1], selectedTile[2])
            /\ moves' = NextMoves(moves)
            /\ selectedTile' = Null
            /\ lastPress' = "swap"
            /\ swaps' = swaps + 1
            /\ IF checkWin(grid', gridSize)
               THEN handleWin
               ELSE /\ Quiet
                    /\ UNCHANGED <<gameState, highScores, storedScores, dialog,
                                   recorded>>
            /\ timerRef' = IF gameState' = gameState
                           THEN timerRef ELSE TimerEffect(gameState', timeLeft)
            /\ UNCHANGED <<gridSize, targetGrid, timeLeft, playerName, storedName,
                           platform, loaded, timeouts, sessions>>
       ELSE /\ selectedTile' = <<row, col>>
            /\ lastPress' = "reselect"
            /\ Quiet
            /\ UNCHANGED <<gameState, gridSize, grid, targetGrid, moves, timeLeft,
                           playerName, highScores, timerRef, storedScores,
                           storedName, platform, dialog, loaded, swaps, timeouts,
                           sessions, recorded>>

\* The Give Up button, lines 644-655, and the timer effect of the render.
GiveUp ==
    /\ GameScreen
    /\ UNCHANGED settings
    /\ CanPress
    /\ GiveUpTime
    /\ sound' = "gameover"
    /\ prompt' = "none"
    /\ gameState' = "menu"
    /\ timerRef' = TimerEffect(gameState', timeLeft)
    /\ lastPress' = "none"
    /\ UNCHANGED <<gridSize, grid, targetGrid, selectedTile, moves, timeLeft,
                   playerName, highScores, storedScores, storedName, platform,
                   dialog, loaded, swaps, timeouts, sessions, recorded>>

\* handleGameOver, lines 390-404, and the timer effect of the render.
handleGameOver ==
    /\ gameState' = "gameOver"
    /\ timerRef' = TimerEffect(gameState', timeLeft')
    /\ sound' = "gameover"
    /\ prompt' = "Time's Up!"
    /\ dialog' = Shown("Time's Up!")
    /\ timeouts' = timeouts + 1

\* The one-second timeout of the timer effect, lines 207-209, and the effect
\* of the render it causes: the callback sets the time of its closure minus
\* one; the effect then schedules the next timeout or calls handleGameOver.
Tick ==
    /\ timerRef # NoTimer
    /\ UNCHANGED settings
    /\ timeLeft' = timerRef - 1
    /\ lastPress' = "none"
    /\ IF TimerEffectFires(gameState, timeLeft')
       THEN handleGameOver
       ELSE /\ timerRef' = TimerEffect(gameState, timeLeft')
            /\ Quiet
            /\ UNCHANGED <<gameState, dialog, timeouts>>
    /\ UNCHANGED <<gridSize, grid, targetGrid, selectedTile, moves, playerName,
                   highScores, storedScores, storedName, platform, loaded, swaps,
                   sessions, recorded>>

\* The OK button of the dialog on screen: the win and time's-up dialogs call
\* setGameState('menu') (lines 385, 402); the others only close.
DialogOk ==
    /\ dialog \notin {"none", "Reset High Scores"}
    /\ UNCHANGED settings
    /\ dialog' = "none"
    /\ gameState' = IF dialog \in {"Congratulations!", "Time's Up!"}
                    THEN "menu" ELSE gameState
    /\ timerRef' = IF gameState' = gameState
                   THEN timerRef ELSE TimerEffect(gameState', timeLeft)
    /\ Quiet
    /\ lastPress' = "none"
    /\ UNCHANGED <<gridSize, grid, targetGrid, selectedTile, moves, timeLeft,
                   playerName, highScores, storedScores, storedName, platform,
                   loaded, swaps, timeouts, sessions, recorded>>

-----------------------------------------------------------------------------
(* The score ledger alone: wins recorded one after another, from no scores *)

\* The wins recorded: the moves 10, 3, 7, 1, 9, 5 of one key and a win of
\* another key.
RecordInputs ==
    {<<"3x3", 1>>, <<"3x3", 3>>, <<"3x3", 5>>, <<"3x3", 7>>, <<"3x3", 9>>,
     <<"3x3", 10>>, <<"4x4", 4>>}

RECURSIVE Total(_, _)
Total(history, keys) ==
    IF keys = {} THEN 0
    ELSE LET k == CHOOSE x \in keys : TRUE
         IN  Len(history[k]) + Total(history, keys \ {k})

InitLedger ==
    /\ Init
    /\ storedScores = Absent
    /\ platform = "native"

\* handleWin's update of the ledger, lines 359-377, for a win with the given
\* moves under the given key; the time remaining tells the wins apart.
recordWin(key, m) ==
    /\ Total(recorded, DOMAIN recorded) < MaxRecords
    /\ UNCHANGED settings
    /\ highScores' = RecordWin(highScores, key,
                          [name |-> <<"A">>, moves |-> m,
                           timeRemaining |-> Total(recorded, DOMAIN recorded),
                           date |-> Today])
    /\ storedScores' = Json(highScores')
    /\ recorded' = Remember(recorded, key, m)
    /\ UNCHANGED <<gameState, gridSize, grid, targetGrid, selectedTile, moves,
                   timeLeft, playerName, timerRef, storedName, platform, dialog,
                   prompt, sound, loaded, lastPress, swaps, timeouts, sessions>>

NextLedger == \E input \in RecordInputs : recordWin(input[1], input[2])

SpecLedger == InitLedger /\ [][NextLedger]_vars

-----------------------------------------------------------------------------

\* One launch of the app.
Next ==
    \/ \E failed \in ReadFailures : loadInitialData(failed)
    \/ SplashDone
    \/ \E size \in GridSizes : SetGridSize(size)
    \/ \E name \in Names : SetPlayerName(name)
    \/ startGame
    \/ resetHighScores
    \/ DialogCancel
    \/ DialogReset
    \/ \E cell \in TapCells : handleTilePress(cell[1], cell[2])
    \/ GiveUp
    \/ Tick
    \/ DialogOk

Spec == Init /\ [][Next]_vars

\* The one-second timeout of the timer effect fires.
SpecTicking == Spec /\ WF_vars(Tick)

-----------------------------------------------------------------------------
(* The app over its store: launches one after another, each loading what the
   launches before it stored; the player keeps to two sizes, one name and two
   neighbouring tiles *)

StoreSizes == {3, 4}
StoreNames == {<<"A">>}
StoreCells == {<<0, 0>>, <<0, 1>>}

NextStore ==
    \/ \E failed \in ReadFailures : loadInitialData(failed)
    \/ SplashDone
    \/ Relaunch
    \/ \E size \in StoreSizes : SetGridSize(size)
    \/ \E name \in StoreNames : SetPlayerName(name)
    \/ startGame
    \/ resetHighScores
    \/ DialogCancel
    \/ DialogReset
    \/ \E cell \in StoreCells : handleTilePress(cell[1], cell[2])
    \/ GiveUp
    \/ Tick
    \/ DialogOk

SpecStore == Init /\ [][NextStore]_vars

-----------------------------------------------------------------------------
(* The settings over the store: launches one after another in which the
   player only uses the switches and the size buttons of the menu *)

NextSettings ==
    \/ \E failed \in ReadFailures : loadInitialData(failed)
    \/ SplashDone
    \/ Relaunch
    \/ \E size \in StoreSizes : SetGridSize(size)
    \/ ToggleDarkMode
    \/ ToggleSound

SpecSettings == Init /\ [][NextSettings]_vars

\* The mount effect runs loadInitialData and its three-second timeout fires.
SpecStoreFair ==
    /\ SpecStore
    /\ WF_vars(\E failed \in ReadFailures : loadInitialData(failed))
    /\ WF_vars(SplashDone)

-----------------------------------------------------------------------------
(* Properties *)

InSession == gameState \in {"playing", "won", "gameOver"}

\* A step inside a session of one run of the app: neither a successful
\* startGame nor a relaunch.
SessionStep == sessions' = sessions /\ gameState' # "splash"

Cells(n) == (1..n) \X (1..n)

IsPermutationGrid(g, n) ==
    /\ Len(g) = n
    /\ \A i \in 1..n : Len(g[i]) = n
    /\ \A k \in 1..(n * n) :
          Cardinality({c \in Cells(n) : g[c[1]][c[2]].number = k}) = 1

RowMajorAscending(g) ==
    \A i \in 1..Len(g) : \A j \in 1..Len(g[i]) :
        g[i][j].number = (i - 1) * Len(g) + j

OrthogonalNeighbours(a, b) ==
    \/ a[1] = b[1] /\ (a[2] = b[2] + 1 \/ b[2] = a[2] + 1)
    \/ a[2] = b[2] /\ (a[1] = b[1] + 1 \/ b[1] = a[1] + 1)

\* h is g with the tiles of the (0-based) cells a and b exchanged.
Exchanged(g, h, a, b) ==
    /\ Len(h) = Len(g)
    /\ \A i \in 1..Len(g) :
          /\ Len(h[i]) = Len(g[i])
          /\ \A j \in 1..Len(g[i]) :
                h[i][j] = IF <<i - 1, j - 1>> = a THEN g[b[1] + 1][b[2] + 1]
                          ELSE IF <<i - 1, j - 1>> = b THEN g[a[1] + 1][a[2] + 1]
                          ELSE g[i][j]

\* C1: in a session the grid is gridSize x gridSize and holds each number of
\* 1..gridSize^2 exactly once; the grid a finished session leaves behind is
\* still such a square.
C1_GridIsPermutation ==
    /\ InSession => gridSize \in GridSizes /\ IsPermutationGrid(grid, gridSize)
    /\ grid # <<>> => Len(grid) \in GridSizes /\ IsPermutationGrid(grid, Len(grid))

C1_Witness == gameState = "playing" /\ swaps = 1 /\ gridSize = 6

\* C2: a tap leaves the grid unchanged unless the game is being played and the
\* tapped cell is an orthogonal neighbour of the selection; then exactly the
\* two cells exchange their tiles.
C2_SwapOnlyNeighbours ==
    [][\A cell \in TapCells :
          handleTilePress(cell[1], cell[2]) =>
             IF /\ gameState = "playing"
                /\ selectedTile # Null
                /\ OrthogonalNeighbours(cell, selectedTile)
             THEN Exchanged(grid, grid', cell, selectedTile) /\ grid' # grid
             ELSE grid' = grid]_vars

C2_Witness ==
    /\ gameState = "playing"
    /\ lastPress = "reselect"
    /\ selectedTile = <<1, 1>>
    /\ swaps = 1

\* C3: the move counter is 0 at startGame, grows by exactly 1 with each
\* successful swap and is changed by nothing else in the session; it equals
\* the number of successful swaps since startGame.
C3_MoveCounter ==
    /\ [](moves = swaps)
    /\ [][/\ sessions' # sessions => moves' = 0
          /\ SessionStep =>
                IF grid' # grid THEN moves' = moves + 1 ELSE moves' = moves]_vars

C3_Witness ==
    /\ gameState = "playing"
    /\ moves = MaxMoves
    /\ lastPress = "deselect"
    /\ timeLeft = 1

\* C4: the phase changes from playing to won exactly at a swap that leaves
\* the grid row-major ascending, and in phase won the grid shows the numbers
\* of the target grid.
C4_WinDetection ==
    /\ [](gameState = "won" =>
            /\ RowMajorAscending(grid)
            /\ \A c \in Cells(gridSize) :
                  grid[c[1]][c[2]].number = targetGrid[c[1]][c[2]].number)
    /\ [][/\ (gameState' = "won" /\ gameState # "won") =>
                gameState = "playing" /\ grid' # grid /\ RowMajorAscending(grid')
          /\ (gameState = "playing" /\ SessionStep /\ grid' # grid
                /\ RowMajorAscending(grid')) => gameState' = "won"]_vars

C4_Witness == gameState = "won" /\ gridSize = 5 /\ swaps = 1

\* C5: in phase won the ledger holds, under the key of the grid size, a result
\* with the player name, the number of successful swaps of the session (the
\* winning one included) and the time left at the win.
C5_RecordedResult ==
    gameState = "won" =>
        \E i \in DOMAIN ScoresOf(highScores, ScoreKey(gridSize)) :
            highScores[ScoreKey(gridSize)][i] =
                [name |-> playerName, moves |-> swaps, timeRemaining |-> timeLeft,
                 date |-> Today]

CountOf(list, v) == Cardinality({i \in DOMAIN list : list[i] = v})

MovesOf(list) == [i \in DOMAIN list |-> list[i].moves]

\* kept holds the smallest (at most five) of the numbers of all, in ascending
\* order.
FiveSmallest(kept, all) ==
    /\ Len(kept) = IF Len(all) < 5 THEN Len(all) ELSE 5
    /\ \A i \in DOMAIN kept : \A j \in DOMAIN kept : i < j => kept[i] <= kept[j]
    /\ \A i \in DOMAIN all :
          /\ CountOf(kept, all[i]) <= CountOf(all, all[i])
          /\ CountOf(kept, all[i]) < CountOf(all, all[i]) =>
                \A j \in DOMAIN kept : kept[j] <= all[i]
    /\ \A j \in DOMAIN kept : CountOf(all, kept[j]) > 0

\* C6: after any sequence of recorded wins from an empty ledger, the list of
\* every key has at most 5 entries, ascending by moves, and they are the 5
\* smallest move counts ever recorded for the key.
C6_TopFive ==
    /\ DOMAIN highScores = DOMAIN recorded
    /\ \A key \in DOMAIN recorded :
          /\ Len(highScores[key]) <= 5
          /\ FiveSmallest(MovesOf(highScores[key]), recorded[key])

C6_Witness ==
    /\ "3x3" \in DOMAIN recorded
    /\ recorded["3x3"] = <<10, 3, 7, 1, 9, 5>>
    /\ MovesOf(highScores["3x3"]) = <<1, 3, 5, 7, 9>>

\* C7: the timeout fires at most once in a session: the tick from 1 to 0
\* while playing gives game over, with one handling and one game-over sound,
\* and after it no tick is pending and the time stays 0.
C7_TimeoutOnce ==
    /\ [](/\ timeouts <= 1
          /\ gameState = "gameOver" =>
                timeouts = 1 /\ timeLeft = 0 /\ timerRef = NoTimer)
    /\ [][/\ (gameState = "playing" /\ timeLeft = 1 /\ timeLeft' = 0) =>
                /\ gameState' = "gameOver"
                /\ timeouts' = timeouts + 1
                /\ sound' = "gameover"
          /\ (gameState' = "gameOver" /\ gameState # "gameOver") =>
                gameState = "playing" /\ timeLeft' = 0
          /\ (SessionStep /\ timeouts' # timeouts) =>
                gameState = "playing" /\ gameState' = "gameOver"]_vars

C7_Witness ==
    /\ gameState = "gameOver"
    /\ timeLeft = 0
    /\ timeouts = 1
    /\ sound = "gameover"
    /\ selectedTile # Null

\* C8: in a session the time left is between 0 and the limit of the grid
\* size, and within a session it changes only by a tick of 1 taken while
\* playing; outside playing no tick is pending.
C8_ClockOnlyWhilePlaying ==
    /\ [](InSession => 0 <= timeLeft /\ timeLeft <= 30 * (gridSize - 2))
    /\ [](gameState # "playing" => timerRef = NoTimer)
    /\ [][(SessionStep /\ timeLeft' # timeLeft) =>
             gameState = "playing" /\ timeLeft' = timeLeft - 1]_vars

C8_Witness ==
    /\ gameState = "menu"
    /\ sound = "gameover"
    /\ timeLeft = 0
    /\ selectedTile # Null
    /\ timerRef = NoTimer

IsBlank(name) == \A i \in DOMAIN name : name[i] = " "

\* C9: startGame with a name that is empty after trimming is rejected: the
\* phase stays menu, the name prompt is raised and the grid, target grid,
\* moves, selection, time, ledger and stored items are unchanged; and no
\* session starts with such a name.
C9_EmptyNameRejected ==
    [][/\ (startGame /\ IsBlank(playerName)) =>
             /\ gameState' = "menu"
             /\ prompt' = "Name Required"
             /\ UNCHANGED <<grid, targetGrid, moves, selectedTile, timeLeft,
                            highScores, storedScores, storedName, playerName,
                            gridSize, sessions>>
       /\ (gameState = "menu" /\ gameState' = "playing") => ~IsBlank(playerName)]_vars

C9_Witness ==
    /\ gameState = "menu"
    /\ prompt = "Name Required"
    /\ playerName = <<" ">>
    /\ sessions = 1
    /\ selectedTile # Null

\* C10: a successful startGame gives phase playing with 0 moves, no
\* selection, the time limit of the chosen size (30, 60, 90, 120 for 3, 4, 5,
\* 6) and a grid and target grid of that size, whatever the session before
\* left behind.
C10_StartResets ==
    [][(gameState = "menu" /\ gameState' = "playing") =>
          /\ moves' = 0
          /\ selectedTile' = Null
          /\ timeLeft' = 30 * (gridSize - 2)
          /\ gridSize' = gridSize
          /\ IsPermutationGrid(grid', gridSize)
          /\ IsPermutationGrid(targetGrid', gridSize)
          /\ RowMajorAscending(targetGrid')
          /\ sessions' = sessions + 1]_vars

C10_Witness ==
    /\ gameState = "playing"
    /\ sessions = 2
    /\ gridSize = 6
    /\ timeLeft = 120
    /\ moves = 0
    /\ "3x3" \in DOMAIN highScores

\* C11: a tap while the phase is not playing changes nothing of the grid,
\* selection, moves, time, phase and ledger; and once a session is won or
\* timed out it sees no further swap, move or recorded win.
C11_PressOutsidePlaying ==
    /\ [][\A cell \in TapCells :
             (handleTilePress(cell[1], cell[2]) /\ gameState # "playing") =>
                UNCHANGED <<grid, selectedTile, moves, timeLeft, gameState,
                            highScores, storedScores>>]_vars
    /\ [][(gameState \in {"won", "gameOver"} /\ SessionStep) =>
             /\ UNCHANGED <<grid, selectedTile, moves, swaps, recorded>>
             /\ gameState' \in {gameState, "menu"}]_vars

C11_Witness ==
    /\ gameState = "won"
    /\ lastPress = "ignored"
    /\ dialog = "none"
    /\ swaps = 1

\* C12: Give Up pressed while the phase is won or gameOver changes no state
\* and makes no game-over sound; it takes effect only from playing.
C12_GiveUpOnlyFromPlaying ==
    [][(GiveUp /\ gameState \in {"won", "gameOver"}) =>
          /\ sound' # "gameover"
          /\ UNCHANGED <<gameState, gridSize, grid, targetGrid, selectedTile,
                         moves, timeLeft, playerName, highScores, timerRef,
                         storedScores, storedName>>]_vars

Arc(from, to) == gameState = from /\ gameState' = to

\* C13: within one run of the app every phase change is one of splash->menu
\* (splash timeout), menu->playing (startGame), playing->won (a winning tap),
\* playing->gameOver (the clock's timeout), playing->menu (Give Up),
\* won->menu and gameOver->menu (the dialog's OK); an OK pressed while
\* playing leaves the phase playing, and splash is never entered again.
C13_PhaseChanges ==
    [][/\ (gameState' # gameState /\ ~Relaunch) =>
             \/ Arc("splash", "menu") /\ SplashDone
             \/ Arc("menu", "playing") /\ startGame
             \/ Arc("playing", "won") /\
                   \E cell \in TapCells : handleTilePress(cell[1], cell[2])
             \/ Arc("playing", "gameOver") /\ Tick
             \/ Arc("playing", "menu") /\ GiveUp
             \/ Arc("won", "menu") /\ DialogOk
             \/ Arc("gameOver", "menu") /\ DialogOk
       /\ (DialogOk /\ gameState = "playing") => gameState' = "playing"]_vars

IsWin == Arc("playing", "won")

\* C14: after startup the in-memory and the stored ledger change only at a
\* win or a confirmed reset; a win changes the list of the key of the current
\* grid size, keeps every other key's list and stores the result.
C14_LedgerMutations ==
    [][/\ (/\ gameState # "splash"
           /\ gameState' # "splash"
           /\ (highScores' # highScores \/ storedScores' # storedScores)) =>
             IsWin \/ DialogReset
       /\ IsWin =>
             /\ DOMAIN highScores' = (DOMAIN highScores) \cup {ScoreKey(gridSize)}
             /\ \A key \in (DOMAIN highScores) \ {ScoreKey(gridSize)} :
                   highScores'[key] = highScores[key]
             /\ highScores'[ScoreKey(gridSize)] # ScoresOf(highScores, ScoreKey(gridSize))
             /\ storedScores' = Json(highScores')]_vars

C14_Witness ==
    /\ gameState = "won"
    /\ gridSize = 4
    /\ DOMAIN highScores = {"3x3", "4x4"}
    /\ storedScores = Json(highScores)

\* C15: right after a confirmed reset the in-memory ledger has no key and
\* the stored ledger is gone, whatever was recorded before, and a load of a
\* store without a ledger gives the empty ledger; Cancel changes neither.
C15_ResetEmpties ==
    /\ [](prompt = "Success" =>
             highScores = EmptyScores /\ storedScores = Absent)
    /\ [][/\ DialogReset => highScores' = EmptyScores /\ storedScores' = Absent
          /\ DialogCancel => UNCHANGED <<highScores, storedScores>>
          /\ \A failed \in ReadFailures :
                (loadInitialData(failed) /\ storedScores = Absent) =>
                   highScores' = EmptyScores]_vars

C15_Witness ==
    /\ gameState = "menu"
    /\ prompt = "Success"
    /\ swaps = 1
    /\ grid # <<>>
    /\ RowMajorAscending(grid)
    /\ highScores = EmptyScores
    /\ storedScores = Absent

\* C16: whichever reads of the store fail, every result recorded since the
\* last reset that ranks in the top 5 of its key is in the stored ledger.
C16_PersistedKept ==
    \A key \in DOMAIN recorded :
        /\ storedScores.kind = "json"
        /\ key \in DOMAIN storedScores.value
        /\ FiveSmallest(MovesOf(storedScores.value[key]), recorded[key])

\* C17: every launch leaves the splash for the menu, once, whatever the
\* store holds and whichever read fails; the load gives the stored ledger
\* when it is read and parsed and the empty ledger otherwise, and that is
\* the ledger at the menu.
C17_StartupReachesMenu ==
    /\ (gameState = "splash") ~> (gameState = "menu")
    /\ [][/\ \A failed \in ReadFailures :
                loadInitialData(failed) =>
                   highScores' = IF failed # "scores" /\ storedScores.kind = "json"
                                 THEN storedScores.value ELSE EmptyScores
          /\ gameState = "splash" =>
                gameState' = "splash" \/ (SplashDone /\ loaded /\ highScores' = highScores)
          /\ (gameState # "splash" /\ gameState' = "splash") => Relaunch]_vars

C17_Witness ==
    /\ gameState = "menu"
    /\ grid = <<>>
    /\ sessions = 1
    /\ storedScores.kind = "json"
    /\ highScores = storedScores.value
    /\ "3x3" \in DOMAIN highScores

\* C18: while playing, a tap on (row, col) selects it if nothing is
\* selected, clears the selection if it is the selected cell or an
\* orthogonal neighbour of it (a swap), and selects it otherwise; the
\* selection is one cell or none, and none after a swap and in phase won.
C18_Selection ==
    /\ [](selectedTile = Null \/ selectedTile \in TapCells)
    /\ [](gameState = "won" => selectedTile = Null)
    /\ [][/\ \A cell \in TapCells :
                (handleTilePress(cell[1], cell[2]) /\ gameState = "playing") =>
                   selectedTile' =
                      IF selectedTile = Null THEN cell
                      ELSE IF cell = selectedTile THEN Null
                      ELSE IF OrthogonalNeighbours(cell, selectedTile) THEN Null
                      ELSE cell
          /\ (SessionStep /\ grid' # grid) => selectedTile' = Null
          /\ IsWin => selectedTile' = Null]_vars

C18_Witness ==
    /\ gameState = "playing"
    /\ gridSize = 4
    /\ lastPress = "swap"
    /\ selectedTile = Null
    /\ swaps = 1

\* C19: a step asks for the victory sound exactly when it takes the phase
\* from playing to won, for the game-over sound exactly when it takes the
\* phase from playing to gameOver or is a Give Up from playing, and for no
\* sound otherwise.
C19_SoundSignals ==
    [][/\ sound' = "victory" <=> IsWin
       /\ sound' = "gameover" <=>
             (Arc("playing", "gameOver") \/ (GiveUp /\ gameState = "playing"))
       /\ sound' \in {"none", "victory", "gameover"}]_vars

\* C20: in the ledger alone the results of a key with equal moves stand in
\* the order they were recorded, and a win whose moves equal those of the
\* worst of five results of its key leaves the ledger unchanged.
C20_StableTies ==
    /\ [](\A key \in DOMAIN highScores :
             \A i \in DOMAIN highScores[key] : \A j \in DOMAIN highScores[key] :
                 (i < j /\ highScores[key][i].moves = highScores[key][j].moves) =>
                    highScores[key][i].timeRemaining < highScores[key][j].timeRemaining)
    /\ [][\A input \in RecordInputs :
             (/\ recordWin(input[1], input[2])
              /\ Len(ScoresOf(highScores, input[1])) = 5
              /\ highScores[input[1]][5].moves = input[2]) =>
                 highScores' = highScores]_vars

C20_Witness ==
    /\ "3x3" \in DOMAIN recorded
    /\ recorded["3x3"] = <<1, 3, 5, 9, 9, 9>>
    /\ MovesOf(highScores["3x3"]) = <<1, 3, 5, 9, 9>>
    /\ highScores["3x3"][5].timeRemaining = 4

\* The tile of the target grid with the number k, the target grid being in
\* row-major ascending order.
TargetTile(k) ==
    targetGrid[((k - 1) \div Len(targetGrid)) + 1][((k - 1) % Len(targetGrid)) + 1]

\* C21: every tile of the grid has the color the target grid gives to the
\* tile of the same number; the target grid has number (i-1)*size + j at row
\* i, column j, and no step of a session changes it.
C21_ColorFollowsNumber ==
    /\ [](grid # <<>> =>
             /\ Len(targetGrid) = Len(grid)
             /\ RowMajorAscending(targetGrid)
             /\ \A c \in Cells(Len(grid)) :
                   grid[c[1]][c[2]].color = TargetTile(grid[c[1]][c[2]].number).color)
    /\ [][SessionStep => targetGrid' = targetGrid]_vars

C21_Witness ==
    /\ gameState = "playing"
    /\ gridSize = 3
    /\ swaps = 1
    /\ grid[1][1].number = 8
    /\ grid[1][1].color = targetGrid[3][2].color
    /\ grid[1][1].color # targetGrid[1][1].color

\* C22: with the one-second timeout firing, a session that is playing leaves
\* playing; while playing the pending timeout is that of the time left,
\* between 1 and the limit of the size, and a tap that does not win changes
\* neither the time left nor the pending timeout.
C22_SessionEnds ==
    /\ (gameState = "playing") ~> (gameState \in {"won", "gameOver", "menu"})
    /\ [](gameState = "playing" =>
             /\ 1 <= timeLeft
             /\ timeLeft <= getTimeLimit(gridSize)
             /\ timerRef = timeLeft)
    /\ [][/\ \A cell \in TapCells :
                (handleTilePress(cell[1], cell[2]) /\ gameState' = "playing") =>
                   UNCHANGED <<timeLeft, timerRef>>
          /\ (Tick /\ gameState = "playing") => timeLeft' = timeLeft - 1]_vars

C22_Witness ==
    /\ gameState = "gameOver"
    /\ gridSize = 6
    /\ swaps = 1
    /\ selectedTile # Null

\* C23: whenever the phase is playing the grid is not in row-major ascending
\* order.
C23_NeverSolvedWhilePlaying ==
    gameState = "playing" => ~RowMajorAscending(grid)

\* C24: after a switch of the menu is turned and its save is done, the
\* stored darkMode and soundOn are the new values in memory.
C24_SettingsSaved ==
    [][(ToggleDarkMode \/ ToggleSound) =>
          /\ storedDarkMode' = Json(isDarkMode')
          /\ storedSound' = Json(soundEnabled')]_vars

====
